---- MODULE Spec2Model ----
(***************************************************************************)
(* Model of the data writer of psql-wire (writer.go).                      *)
(*                                                                         *)
(* One dataWriter is used by one caller, one call at a time.  Every        *)
(* method of the writer is a pure operator from the writer (and the        *)
(* outcome of the collaborator it invokes) to the writer afterwards and    *)
(* the error it returns; every action of the state machine is one call.    *)
(* The row codec (Columns.Define, Columns.Write) and the frame sink        *)
(* (buffer.Writer) live outside writer.go and are modelled from their      *)
(* described interface.                                                    *)
(***************************************************************************)
EXTENDS Integers, Sequences, FiniteSets, TLC

VARIABLES columns, formats, client, closed, written, hist, codec, task

vars == <<columns, formats, client, closed, written, hist, codec, task>>

(***************************************************************************)
(* Bounds.                                                                 *)
(***************************************************************************)
\* number of calls made on one writer
MaxCalls == 4

\* number of Row calls made before the concurrent calls of Complete
MaxPrelude == 1

(***************************************************************************)
(* Errors.                                                                 *)
(***************************************************************************)
nil == "nil"

ErrDataWritten == "data has already been written"

ErrClosedWriter == "closed writer"

\* an error raised by the row codec
ErrCodec == "codec error"

\* an error raised by the frame sink when a message is ended
ErrSink == "sink error"

Errors == {ErrDataWritten, ErrClosedWriter, ErrCodec, ErrSink}

(***************************************************************************)
(* Inputs.  Columns is a slice: a nil slice and an empty slice both have   *)
(* length 0 but only the second one passes a "!= nil" test.  A column is   *)
(* represented by its type oid.                                            *)
(***************************************************************************)
NilColumns == [isNil |-> TRUE, cols |-> <<>>]

ColumnsSet == {NilColumns, [isNil |-> FALSE, cols |-> <<>>], [isNil |-> FALSE, cols |-> <<23>>]}

FormatsSet == {<<>>, <<1>>}

ValuesSet == {<<>>, <<7>>}

\* "S" and "S0" as byte strings
DescriptionSet == {<<83>>, <<83, 48>>}

CodecOutcomes == {nil, ErrCodec}

SinkOutcomes == {nil, ErrSink}

(***************************************************************************)
(* The frame sink: a message under construction and the log of the         *)
(* messages that were ended, each with the outcome of its transmission.    *)
(***************************************************************************)
NoFrame == [tag |-> "", body |-> <<>>]

NewClient == [frame |-> NoFrame, ends |-> <<>>]

Start(c, t) == [c EXCEPT !.frame = [tag |-> t, body |-> <<>>]]

AddByte(c, b) == [c EXCEPT !.frame.body = Append(@, b % 256)]

AddInt16(c, n) == [c EXCEPT !.frame.body = @ \o <<(n \div 256) % 256, n % 256>>]

AddString(c, s) == [c EXCEPT !.frame.body = @ \o s]

AddNullTerminate(c) == [c EXCEPT !.frame.body = Append(@, 0)]

End(c, e) ==
  [client |-> [c EXCEPT !.ends = Append(@, [tag |-> c.frame.tag, body |-> c.frame.body, err |-> e]),
                        !.frame = NoFrame],
   err |-> e]

(***************************************************************************)
(* The row codec.  A call either fails before anything is handed to the    *)
(* sink, or emits one message.  A row whose length differs from the        *)
(* number of columns is the codec's error to raise.                        *)
(***************************************************************************)
ColumnsDefine(cols, c, fmts, e) ==
  IF e # nil
  THEN [client |-> c, err |-> e]
  ELSE End(AddString(AddString(AddInt16(Start(c, "RowDescription"), Len(cols.cols)), cols.cols), fmts), nil)

ColumnsWrite(cols, fmts, c, values, e) ==
  IF Len(values) # Len(cols.cols)
  THEN [client |-> c, err |-> ErrCodec]
  ELSE IF e # nil
  THEN [client |-> c, err |-> e]
  ELSE End(AddString(AddInt16(Start(c, "DataRow"), Len(cols.cols)), values), nil)

(***************************************************************************)
(* The writer.                                                             *)
(***************************************************************************)
\* the dataWriter the variables hold
Self == [columns |-> columns, formats |-> formats, client |-> client, closed |-> closed, written |-> written]

NewDataWriter(cols, fmts, c) == [columns |-> cols, formats |-> fmts, client |-> c, closed |-> FALSE, written |-> 0]

\* what a method leaves behind: the writer, the error returned, the codec calls made
Ret(w, e, calls) == [w |-> w, err |-> e, codec |-> calls]

close(w) == [w EXCEPT !.closed = TRUE]

commandComplete(c, description, e) == End(AddNullTerminate(AddString(Start(c, "CommandComplete"), description)), e)

\* faulty variant of Define: no closed check
DefineNoClosedCheck(w, cols, e) ==
  LET w1 == [w EXCEPT !.columns = cols]
      r == ColumnsDefine(w1.columns, w1.client, w1.formats, e)
  IN Ret([w1 EXCEPT !.client = r.client], r.err, <<[call |-> "Define", err |-> r.err]>>)

Define(w, cols, e) ==
  IF w.closed
  THEN Ret(w, ErrClosedWriter, <<>>)
  ELSE LET w1 == [w EXCEPT !.columns = cols]
           r == ColumnsDefine(w1.columns, w1.client, w1.formats, e)
       IN Ret([w1 EXCEPT !.client = r.client], r.err, <<[call |-> "Define", err |-> r.err]>>)

\* faulty variant of Row: a codec error closes the writer
RowClosesOnError(w, values, e) ==
  IF w.closed
  THEN Ret(w, ErrClosedWriter, <<>>)
  ELSE LET w1 == [w EXCEPT !.written = @ + 1]
           r == ColumnsWrite(w1.columns, w1.formats, w1.client, values, e)
       IN Ret([w1 EXCEPT !.client = r.client, !.closed = (r.err # nil)], r.err, <<[call |-> "Write", err |-> r.err]>>)

\* faulty variant of Row: the row is counted before the closed check
RowCountsFirst(w, values, e) ==
  LET w1 == [w EXCEPT !.written = @ + 1]
  IN IF w1.closed
     THEN Ret(w1, ErrClosedWriter, <<>>)
     ELSE LET r == ColumnsWrite(w1.columns, w1.formats, w1.client, values, e)
          IN Ret([w1 EXCEPT !.client = r.client], r.err, <<[call |-> "Write", err |-> r.err]>>)

Row(w, values, e) ==
  IF w.closed
  THEN Ret(w, ErrClosedWriter, <<>>)
  ELSE LET w1 == [w EXCEPT !.written = @ + 1]
           r == ColumnsWrite(w1.columns, w1.formats, w1.client, values, e)
       IN Ret([w1 EXCEPT !.client = r.client], r.err, <<[call |-> "Write", err |-> r.err]>>)

CopyInColumns == 3

\* faulty variant of the format loop: one format code too many
RECURSIVE AddFormatsOffByOne(_, _)
AddFormatsOffByOne(c, i) == IF i <= CopyInColumns THEN AddFormatsOffByOne(AddInt16(c, 0), i + 1) ELSE c

RECURSIVE AddFormats(_, _)
AddFormats(c, i) == IF i < CopyInColumns THEN AddFormats(AddInt16(c, 0), i + 1) ELSE c

\* faulty variant of CopyIn: the error of End is dropped
CopyInSwallows(w, e) ==
  IF w.closed
  THEN Ret(w, ErrClosedWriter, <<>>)
  ELSE LET c1 == AddInt16(AddByte(Start(w.client, "CopyInResponse"), 0), CopyInColumns)
           r == End(AddFormats(c1, 0), e)
       IN Ret([w EXCEPT !.client = r.client], nil, <<>>)

\* faulty variant of CopyIn: no closed check
CopyInNoClosedCheck(w, e) ==
  LET c1 == AddInt16(AddByte(Start(w.client, "CopyInResponse"), 0), CopyInColumns)
      r == End(AddFormats(c1, 0), e)
  IN Ret([w EXCEPT !.client = r.client], r.err, <<>>)

CopyIn(w, e) ==
  IF w.closed
  THEN Ret(w, ErrClosedWriter, <<>>)
  ELSE LET c1 == AddInt16(AddByte(Start(w.client, "CopyInResponse"), 0), CopyInColumns)
           r == End(AddFormats(c1, 0), e)
       IN Ret([w EXCEPT !.client = r.client], r.err, <<>>)

\* faulty variant of Empty: the written check comes before the closed check
EmptyDataFirst(w) ==
  IF w.written # 0
  THEN Ret(w, ErrDataWritten, <<>>)
  ELSE IF w.closed
  THEN Ret(w, ErrClosedWriter, <<>>)
  ELSE Ret(close(w), nil, <<>>)

\* faulty variant of Empty: no written check
EmptyNoDataCheck(w) ==
  IF w.closed
  THEN Ret(w, ErrClosedWriter, <<>>)
  ELSE Ret(close(w), nil, <<>>)

\* faulty variant of Empty: the writer is not closed
EmptyNoClose(w) ==
  IF w.closed
  THEN Ret(w, ErrClosedWriter, <<>>)
  ELSE IF w.written # 0
  THEN Ret(w, ErrDataWritten, <<>>)
  ELSE Ret(w, nil, <<>>)

\* faulty variant of Empty: an empty response is announced to the client
EmptyAnnounces(w) ==
  IF w.closed
  THEN Ret(w, ErrClosedWriter, <<>>)
  ELSE IF w.written # 0
  THEN Ret(w, ErrDataWritten, <<>>)
  ELSE Ret(close([w EXCEPT !.client = End(Start(w.client, "EmptyQueryResponse"), nil).client]), nil, <<>>)

\* faulty variant of Empty: the close is deferred before the written check
EmptyClosesFirst(w) ==
  IF w.closed
  THEN Ret(w, ErrClosedWriter, <<>>)
  ELSE IF w.written # 0
  THEN Ret(close(w), ErrDataWritten, <<>>)
  ELSE Ret(close(w), nil, <<>>)

Empty(w) ==
  IF w.closed
  THEN Ret(w, ErrClosedWriter, <<>>)
  ELSE IF w.written # 0
  THEN Ret(w, ErrDataWritten, <<>>)
  ELSE Ret(close(w), nil, <<>>)

Written(w) == w.written

\* faulty variant of Complete: the closed check is repeated after the internal Empty
CompleteRecheck(w, description, e) ==
  IF w.closed
  THEN Ret(w, ErrClosedWriter, <<>>)
  ELSE LET first == IF w.written = 0 /\ ~w.columns.isNil THEN Empty(w) ELSE Ret(w, nil, <<>>)
       IN IF first.err # nil
          THEN first
          ELSE IF first.w.closed
          THEN Ret(first.w, ErrClosedWriter, <<>>)
          ELSE LET r == commandComplete(first.w.client, description, e)
               IN Ret(close([first.w EXCEPT !.client = r.client]), r.err, <<>>)

\* faulty variant of Complete: the writer is not closed after the CommandComplete
CompleteNoClose(w, description, e) ==
  IF w.closed
  THEN Ret(w, ErrClosedWriter, <<>>)
  ELSE LET first == IF w.written = 0 /\ ~w.columns.isNil THEN Empty(w) ELSE Ret(w, nil, <<>>)
       IN IF first.err # nil
          THEN first
          ELSE LET r == commandComplete(first.w.client, description, e)
               IN Ret([first.w EXCEPT !.client = r.client], r.err, <<>>)

\* faulty variant of Complete: no closed check
CompleteNoClosedCheck(w, description, e) ==
  LET first == IF w.written = 0 /\ ~w.columns.isNil /\ ~w.closed THEN Empty(w) ELSE Ret(w, nil, <<>>)
  IN IF first.err # nil
     THEN first
     ELSE LET r == commandComplete(first.w.client, description, e)
          IN Ret(close([first.w EXCEPT !.client = r.client]), r.err, <<>>)

\* faulty variant of Complete: the internal Empty is called when either condition holds
CompleteOr(w, description, e) ==
  IF w.closed
  THEN Ret(w, ErrClosedWriter, <<>>)
  ELSE LET first == IF w.written = 0 \/ ~w.columns.isNil THEN Empty(w) ELSE Ret(w, nil, <<>>)
       IN IF first.err # nil
          THEN first
          ELSE LET r == commandComplete(first.w.client, description, e)
               IN Ret(close([first.w EXCEPT !.client = r.client]), r.err, <<>>)

\* faulty variant of Complete: the writer is closed only when the CommandComplete was written
CompleteClosesOnSuccess(w, description, e) ==
  IF w.closed
  THEN Ret(w, ErrClosedWriter, <<>>)
  ELSE LET first == IF w.written = 0 /\ ~w.columns.isNil THEN Empty(w) ELSE Ret(w, nil, <<>>)
       IN IF first.err # nil
          THEN first
          ELSE LET r == commandComplete(first.w.client, description, e)
               IN Ret([first.w EXCEPT !.client = r.client, !.closed = @ \/ r.err = nil], r.err, <<>>)

Complete(w, description, e) ==
  IF w.closed
  THEN Ret(w, ErrClosedWriter, <<>>)
  ELSE LET first == IF w.written = 0 /\ ~w.columns.isNil THEN Empty(w) ELSE Ret(w, nil, <<>>)
       IN IF first.err # nil
          THEN first
          ELSE LET r == commandComplete(first.w.client, description, e)
               IN Ret(close([first.w EXCEPT !.client = r.client]), r.err, <<>>)

(***************************************************************************)
(* The state machine: one writer, one call per step.                       *)
(***************************************************************************)
\* a call leaves its writer, its codec calls and its entry in the history: the
\* operation, its argument, the error returned, and how many messages were
\* handed to the sink and how many codec calls were made up to its return
Apply(r, op, arg) ==
  /\ columns' = r.w.columns
  /\ formats' = r.w.formats
  /\ client' = r.w.client
  /\ closed' = r.w.closed
  /\ written' = r.w.written
  /\ codec' = codec \o r.codec
  /\ UNCHANGED task
  /\ hist' = Append(hist, [op |-> op, arg |-> arg, err |-> r.err,
                            sent |-> Len(r.w.client.ends), codec |-> Len(codec) + Len(r.codec)])

\* the tasks that call Complete on the one writer, and where each of them is
\* in Complete: its position, its argument, the error it returned, whether it
\* got past the closed check of Complete and whether a read of closed it made
\* was stale
Tasks == {1, 2}

IdleTask == [pc |-> "idle", description |-> <<>>, err |-> nil, passed |-> FALSE, stale |-> FALSE]

Init ==
  /\ \E cols \in ColumnsSet, fmts \in FormatsSet :
       LET w == NewDataWriter(cols, fmts, NewClient)
       IN /\ columns = w.columns
          /\ formats = w.formats
          /\ client = w.client
          /\ closed = w.closed
          /\ written = w.written
  /\ hist = <<>>
  /\ codec = <<>>
  /\ task = [t \in Tasks |-> IdleTask]

CallDefine ==
  /\ Len(hist) < MaxCalls
  /\ \E cols \in ColumnsSet, e \in CodecOutcomes : Apply(Define(Self, cols, e), "Define", cols.cols)

CallRow ==
  /\ Len(hist) < MaxCalls
  /\ \E values \in ValuesSet, e \in CodecOutcomes : Apply(Row(Self, values, e), "Row", values)

CallCopyIn ==
  /\ Len(hist) < MaxCalls
  /\ \E e \in SinkOutcomes : Apply(CopyIn(Self, e), "CopyIn", <<>>)

CallEmpty ==
  /\ Len(hist) < MaxCalls
  /\ Apply(Empty(Self), "Empty", <<>>)

CallWritten ==
  /\ Len(hist) < MaxCalls
  /\ Apply(Ret(Self, nil, <<>>), "Written", <<Written(Self)>>)

CallComplete ==
  /\ Len(hist) < MaxCalls
  /\ \E description \in DescriptionSet, e \in SinkOutcomes :
       Apply(Complete(Self, description, e), "Complete", description)

Next ==
  \/ CallDefine
  \/ CallRow
  \/ CallCopyIn
  \/ CallEmpty
  \/ CallWritten
  \/ CallComplete

Spec == Init /\ [][Next]_vars

(***************************************************************************)
(* Two tasks calling Complete on one writer without synchronization.  Each *)
(* read and each write of a field, and each call on the shared client, is  *)
(* one step.  The reads of closed race with the writes of the other task:  *)
(* a read made after such a write sees either the new or the old value.    *)
(***************************************************************************)
ReadClosed == IF closed THEN {TRUE, FALSE} ELSE {FALSE}

\* a task returns from Complete with error e
Return(t, tk, e) ==
  /\ task' = [task EXCEPT ![t] = [tk EXCEPT !.pc = "done", !.err = e]]
  /\ hist' = Append(hist, [op |-> "Complete", arg |-> tk.description, err |-> e,
                            sent |-> Len(client.ends), codec |-> Len(codec)])

\* a task goes on to position pc
Goto(t, tk, pc) ==
  /\ task' = [task EXCEPT ![t] = [tk EXCEPT !.pc = pc]]
  /\ UNCHANGED hist

\* the rows written before the tasks start
ConcRow ==
  /\ \A t \in Tasks : task[t].pc = "idle"
  /\ Len(hist) < MaxPrelude
  /\ \E values \in ValuesSet, e \in CodecOutcomes : Apply(Row(Self, values, e), "Row", values)

\* faulty variant of the closed check of Complete: the value read is ignored
CompleteEnterNoCheck(t) ==
  /\ task[t].pc = "idle"
  /\ \E d \in DescriptionSet, seen \in ReadClosed :
       Goto(t, [task[t] EXCEPT !.description = d, !.passed = ~seen, !.stale = (seen # closed)], "branch")
  /\ UNCHANGED <<columns, formats, client, closed, written, codec>>

\* line 124: the closed check of Complete
CompleteEnter(t) ==
  /\ task[t].pc = "idle"
  /\ \E d \in DescriptionSet, seen \in ReadClosed :
       LET tk == [task[t] EXCEPT !.description = d, !.passed = ~seen, !.stale = (seen # closed)]
       IN IF seen
          THEN Return(t, tk, ErrClosedWriter)
          ELSE Goto(t, tk, "branch")
  /\ UNCHANGED <<columns, formats, client, closed, written, codec>>

\* line 128: whether the internal Empty is called
CompleteBranch(t) ==
  /\ task[t].pc = "branch"
  /\ IF written = 0 /\ ~columns.isNil
     THEN Goto(t, task[t], "emptyCheck")
     ELSE Goto(t, task[t], "start")
  /\ UNCHANGED <<columns, formats, client, closed, written, codec>>

\* lines 107-113 and 130-132: the checks of the internal Empty; its error is
\* returned by Complete
EmptyCheck(t) ==
  /\ task[t].pc = "emptyCheck"
  /\ \E seen \in ReadClosed :
       LET tk == [task[t] EXCEPT !.stale = @ \/ (seen # closed)]
       IN IF seen
          THEN Return(t, tk, ErrClosedWriter)
          ELSE IF written # 0
          THEN Return(t, tk, ErrDataWritten)
          ELSE Goto(t, tk, "emptyClose")
  /\ UNCHANGED <<columns, formats, client, closed, written, codec>>

\* lines 115-116: the deferred close of the internal Empty
EmptyClose(t) ==
  /\ task[t].pc = "emptyClose"
  /\ closed' = close(Self).closed
  /\ Goto(t, task[t], "start")
  /\ UNCHANGED <<columns, formats, client, written, codec>>

\* line 147
SinkStart(t) ==
  /\ task[t].pc = "start"
  /\ client' = Start(client, "CommandComplete")
  /\ Goto(t, task[t], "string")
  /\ UNCHANGED <<columns, formats, closed, written, codec>>

\* line 148
SinkString(t) ==
  /\ task[t].pc = "string"
  /\ client' = AddString(client, task[t].description)
  /\ Goto(t, task[t], "null")
  /\ UNCHANGED <<columns, formats, closed, written, codec>>

\* line 149
SinkNull(t) ==
  /\ task[t].pc = "null"
  /\ client' = AddNullTerminate(client)
  /\ Goto(t, task[t], "end")
  /\ UNCHANGED <<columns, formats, closed, written, codec>>

\* line 150: the result of End is what Complete will return
SinkEnd(t) ==
  /\ task[t].pc = "end"
  /\ \E e \in SinkOutcomes :
       LET r == End(client, e)
       IN /\ client' = r.client
          /\ Goto(t, [task[t] EXCEPT !.err = r.err], "close")
  /\ UNCHANGED <<columns, formats, closed, written, codec>>

\* lines 135 and 139-141: the deferred close of Complete, then the return
CompleteClose(t) ==
  /\ task[t].pc = "close"
  /\ closed' = close(Self).closed
  /\ UNCHANGED <<columns, formats, client, written, codec>>
  /\ Return(t, task[t], task[t].err)

NextConc ==
  \/ ConcRow
  \/ \E t \in Tasks : CompleteEnter(t)
  \/ \E t \in Tasks : CompleteBranch(t)
  \/ \E t \in Tasks : EmptyCheck(t)
  \/ \E t \in Tasks : EmptyClose(t)
  \/ \E t \in Tasks : SinkStart(t)
  \/ \E t \in Tasks : SinkString(t)
  \/ \E t \in Tasks : SinkNull(t)
  \/ \E t \in Tasks : SinkEnd(t)
  \/ \E t \in Tasks : CompleteClose(t)

SpecConc == Init /\ [][NextConc]_vars

TypeOK ==
  /\ columns \in ColumnsSet
  /\ formats \in FormatsSet
  /\ closed \in BOOLEAN
  /\ written \in 0..MaxCalls
  /\ Len(hist) <= MaxCalls
  /\ \A i \in 1..Len(hist) : hist[i].err \in Errors \cup {nil}

(***************************************************************************)
(* Vocabulary of the properties.                                           *)
(***************************************************************************)
Calls == 1..Len(hist)

Terminal(i) == hist[i].op \in {"Empty", "Complete"}

Succeeded(i) == hist[i].err = nil

\* the last call and what it returned
LastOp == hist[Len(hist)].op

Result == hist[Len(hist)].err

\* this step is a call of op
IsCall(op) == Len(hist') = Len(hist) + 1 /\ hist'[Len(hist')].op = op

\* this step is a call of op with argument arg
IsCallOf(op, arg) == IsCall(op) /\ hist'[Len(hist')].arg = arg

\* the sink failed during this step
SinkFailed == Len(client'.ends) > Len(client.ends) /\ client'.ends[Len(client'.ends)].err # nil

\* the number of messages call i handed to the sink
Emitted(i) == hist[i].sent - (IF i = 1 THEN 0 ELSE hist[i - 1].sent)

\* the CommandComplete messages handed to the sink
CommandCompletes == {k \in 1..Len(client.ends) : client.ends[k].tag = "CommandComplete"}

SuccessfulRows(h) == Cardinality({i \in 1..Len(h) : h[i].op = "Row" /\ h[i].err = nil})

\* C1: once a call to Empty or Complete has returned success, every later call
\* to Row, Empty, Complete, CopyIn or Define returns ErrClosedWriter (also Empty
\* with written > 0), and Written still returns the counter.
C1_ClosedIsAbsorbing ==
  \A i, j \in Calls :
    i < j /\ Terminal(i) /\ Succeeded(i) =>
      IF hist[j].op = "Written"
      THEN hist[j].err = nil /\ hist[j].arg = <<written>>
      ELSE hist[j].err = ErrClosedWriter

C1_Witness ==
  \E i, j \in Calls :
    /\ i < j
    /\ hist[i].op = "Complete" /\ Succeeded(i)
    /\ written > 0
    /\ hist[j].op = "Empty" /\ hist[j].err = ErrClosedWriter

\* C2: Written() equals the number of Row calls that returned success and
\* never decreases from one call to the next.
C2_WrittenCountsSuccessfulRows ==
  [][Written(Self)' >= Written(Self) /\ Written(Self)' = SuccessfulRows(hist')]_vars

\* C3: on an open writer Empty returns ErrDataWritten if and only if
\* Written() > 0 at the time of the call, and success when Written() = 0.
C3_EmptyDataWritten ==
  [][IsCall("Empty") /\ ~closed =>
       /\ Result' = ErrDataWritten <=> Written(Self) > 0
       /\ Written(Self) = 0 => Result' = nil]_vars

C3_Witness == Len(hist) > 0 /\ LastOp = "Empty" /\ Result = ErrDataWritten /\ ~closed /\ written > 0

\* C4: with a column spec set, no row written and no sink failure, Complete(d)
\* on an open writer returns success, hands exactly one CommandComplete
\* carrying d to the sink, leaves Written() = 0 and the writer closed.
C4_CompleteZeroRows ==
  [][\A d \in DescriptionSet :
       IsCallOf("Complete", d) /\ ~closed /\ ~columns.isNil /\ written = 0 /\ ~SinkFailed =>
         /\ Result' = nil
         /\ client'.ends = Append(client.ends, [tag |-> "CommandComplete", body |-> d \o <<0>>, err |-> nil])
         /\ Written(Self)' = 0
         /\ closed']_vars

C4_Witness ==
  /\ Len(hist) > 0 /\ LastOp = "Complete" /\ Result = nil
  /\ ~columns.isNil /\ written = 0 /\ closed
  /\ Emitted(Len(hist)) = 1

\* C5: Define, then n >= 1 successful Row calls, then Complete(d), with no
\* collaborator failure, ends with Written() = n, the writer closed, and the
\* messages being one column description, n rows and one CommandComplete
\* carrying d as the last message.
C5_DefineRowsComplete ==
  LET n == Len(hist) - 2
  IN (/\ n >= 1
      /\ hist[1].op = "Define"
      /\ \A i \in 2..(n + 1) : hist[i].op = "Row"
      /\ hist[n + 2].op = "Complete"
      /\ \A i \in Calls : Succeeded(i))
     =>
     /\ Written(Self) = n
     /\ closed
     /\ Len(client.ends) = n + 2
     /\ client.ends[1].tag = "RowDescription"
     /\ \A i \in 2..(n + 1) : client.ends[i].tag = "DataRow"
     /\ client.ends[n + 2] = [tag |-> "CommandComplete", body |-> hist[n + 2].arg \o <<0>>, err |-> nil]
     /\ \A k \in 1..(n + 2) : client.ends[k].err = nil

C5_Witness ==
  /\ Len(hist) = 4
  /\ hist[1].op = "Define" /\ hist[2].op = "Row" /\ hist[3].op = "Row" /\ hist[4].op = "Complete"
  /\ \A i \in Calls : Succeeded(i)
  /\ written = 2

\* C6: at most one CommandComplete message is ever handed to the sink: a
\* Complete called after a Complete, or after a successful Empty, returns
\* ErrClosedWriter and emits nothing.
C6_OneCommandComplete ==
  /\ Cardinality(CommandCompletes) <= 1
  /\ \A i, j \in Calls :
       /\ i < j
       /\ hist[j].op = "Complete"
       /\ hist[i].op = "Complete" \/ (hist[i].op = "Empty" /\ Succeeded(i))
       => hist[j].err = ErrClosedWriter /\ Emitted(j) = 0

C6_Witness ==
  /\ Cardinality(CommandCompletes) = 1
  /\ \E i, j \in Calls : i < j /\ hist[i].op = "Complete" /\ Succeeded(i) /\ hist[j].op = "Complete"

\* C7: CopyIn on an open writer hands exactly one CopyInResponse to the sink,
\* with overall format 0, column count 3 and three format codes 0, leaves
\* written and closed unchanged, and so leaves the outcome of a following
\* Row, Empty or Complete unchanged.
C7_CopyInResponse ==
  [][IsCall("CopyIn") /\ ~closed =>
       /\ client'.ends = Append(client.ends,
            [tag |-> "CopyInResponse", body |-> <<0, 0, 3, 0, 0, 0, 0, 0, 0>>, err |-> Result'])
       /\ written' = written
       /\ closed' = closed
       /\ Empty(Self').err = Empty(Self).err
       /\ \A values \in ValuesSet, e \in CodecOutcomes : Row(Self', values, e).err = Row(Self, values, e).err
       /\ \A d \in DescriptionSet, e \in SinkOutcomes : Complete(Self', d, e).err = Complete(Self, d, e).err]_vars

C7_Witness ==
  /\ Len(hist) > 0 /\ LastOp = "CopyIn" /\ Result = nil /\ ~closed
  /\ Emitted(Len(hist)) = 1
  /\ client.ends[Len(client.ends)].tag = "CopyInResponse"

\* C8: at most one call to Empty or Complete returns success.
C8_OneTerminalSucceeds == Cardinality({i \in Calls : Terminal(i) /\ Succeeded(i)}) <= 1

C8_Witness == \E i, j \in Calls : i < j /\ Terminal(i) /\ Succeeded(i) /\ Terminal(j)

\* C9: the writer starts open, no call makes a closed writer open again, and
\* the writer becomes closed only inside Empty or Complete.
C9_ClosedMonotonic ==
  /\ ~closed
  /\ [][/\ closed => closed'
        /\ ~closed /\ closed' => LastOp' \in {"Empty", "Complete"}]_vars

C9_Witness ==
  /\ closed
  /\ \E i, j \in Calls : i < j /\ Terminal(i) /\ Succeeded(i) /\ hist[j].op = "Define"

\* C10: the written counter never changes once the writer is closed, also
\* across later Row calls.
C10_WrittenFrozenAfterClose == [][closed => Written(Self)' = Written(Self)]_vars

C10_Witness ==
  /\ closed /\ written > 0
  /\ Len(hist) > 0 /\ LastOp = "Row" /\ Result = ErrClosedWriter

\* this step is a call
AnyCall == Len(hist') = Len(hist) + 1

\* the row codec failed during this step
CodecFailed == Len(codec') > Len(codec) /\ codec'[Len(codec')].err # nil

\* the number of row-codec calls call i made
CodecCalls(i) == hist[i].codec - (IF i = 1 THEN 0 ELSE hist[i - 1].codec)

\* the messages of a kind handed to the sink
Messages(tag) == {k \in 1..Len(client.ends) : client.ends[k].tag = tag}

C12_NoErrorSwallowed ==
  [][AnyCall =>
       /\ ~closed /\ CodecFailed => Result' = codec'[Len(codec')].err
       /\ ~closed /\ SinkFailed => Result' = client'.ends[Len(client'.ends)].err
       /\ Result' = nil => ~CodecFailed /\ ~SinkFailed
       /\ Result' \in {nil, ErrClosedWriter, ErrDataWritten}
                        \cup {codec'[k].err : k \in (Len(codec) + 1)..Len(codec')}
                        \cup {client'.ends[k].err : k \in (Len(client.ends) + 1)..Len(client'.ends)}]_vars

C12_Witness ==
  \E i, j \in Calls :
    /\ hist[i].op = "Row" /\ hist[i].err = ErrCodec
    /\ hist[j].op = "CopyIn" /\ hist[j].err = ErrSink

\* C13: at most one column-description message is emitted per writer and none
\* is emitted after a row message.
C13_WellFormedOrder ==
  /\ Cardinality(Messages("RowDescription")) <= 1
  /\ \A k \in Messages("DataRow"), l \in Messages("RowDescription") : l < k

\* C13 as amended: Define is not limited by earlier calls: every Define on an
\* open writer calls the row codec once, and every successful one emits
\* exactly one column-description message, also after another Define or after
\* a row; on a closed writer the codec is not called, so no column description
\* follows the CommandComplete.
C13_DefineOrderOnlyWhileOpen ==
  /\ \A i \in Calls :
       hist[i].op = "Define" =>
         /\ CodecCalls(i) = (IF hist[i].err = ErrClosedWriter THEN 0 ELSE 1)
         /\ Succeeded(i) => Emitted(i) = 1 /\ client.ends[hist[i].sent].tag = "RowDescription"
  /\ Cardinality(Messages("RowDescription")) = Cardinality({i \in Calls : hist[i].op = "Define" /\ Succeeded(i)})
  /\ \A k \in CommandCompletes, l \in Messages("RowDescription") : l < k

C13_Witness ==
  /\ Cardinality(Messages("RowDescription")) = 2
  /\ \E k \in Messages("DataRow"), l \in Messages("RowDescription") : k < l
  /\ CommandCompletes # {}

\* C14: Complete never returns ErrDataWritten; the only errors it returns are
\* ErrClosedWriter and the error of the frame sink.
C14_CompleteNeverDataWritten ==
  [][IsCall("Complete") =>
       /\ Result' # ErrDataWritten
       /\ Result' \in {nil, ErrClosedWriter, ErrSink}]_vars

C14_Witness ==
  /\ Len(hist) > 0 /\ LastOp = "Complete" /\ Result = nil
  /\ written > 0 /\ ~columns.isNil
  /\ Emitted(Len(hist)) = 1

\* C15: Complete called on an open writer hands one CommandComplete to the
\* sink and leaves the writer closed on every branch, also when the sink
\* fails: then the sink's error is returned and a retry of Complete returns
\* ErrClosedWriter and emits nothing.
C15_CompleteAlwaysCloses ==
  [][IsCall("Complete") /\ ~closed =>
       /\ closed'
       /\ Len(client'.ends) = Len(client.ends) + 1
       /\ client'.ends[Len(client'.ends)].tag = "CommandComplete"
       /\ SinkFailed => Result' = ErrSink
       /\ \A d \in DescriptionSet, e \in SinkOutcomes :
            Complete(Self', d, e) = Ret(Self', ErrClosedWriter, <<>>)]_vars

C15_Witness ==
  \E i, j \in Calls :
    /\ i < j
    /\ hist[i].op = "Complete" /\ hist[i].err = ErrSink
    /\ hist[j].op = "Complete" /\ hist[j].err = ErrClosedWriter /\ Emitted(j) = 0
    /\ closed

\* C16: a call made on a closed writer makes no row-codec call and no
\* frame-sink call, so a CommandComplete, once handed to the sink, stays the
\* last message.
C16_NothingAfterClose ==
  /\ [](\A k \in CommandCompletes : k = Len(client.ends))
  /\ [][closed /\ AnyCall => client' = client /\ codec' = codec]_vars

C16_Witness ==
  /\ closed /\ CommandCompletes # {}
  /\ Len(hist) > 0 /\ LastOp = "CopyIn" /\ Result = ErrClosedWriter

\* C17: an Empty that fails with ErrDataWritten changes nothing: the writer
\* stays open, written keeps its value, no message is emitted, and a following
\* Row or Complete proceeds (Complete writes the CommandComplete and closes).
C17_FailedEmptyChangesNothing ==
  [][IsCall("Empty") /\ Result' = ErrDataWritten =>
       /\ UNCHANGED <<columns, formats, client, closed, written, codec>>
       /\ ~closed'
       /\ \A values \in ValuesSet, e \in CodecOutcomes :
            LET r == Row(Self', values, e)
            IN r.err # ErrClosedWriter /\ r.w.written = written + 1
       /\ \A d \in DescriptionSet, e \in SinkOutcomes :
            LET r == Complete(Self', d, e)
            IN /\ r.err = e
               /\ r.w.closed
               /\ r.w.client.ends = Append(client.ends, [tag |-> "CommandComplete", body |-> d \o <<0>>, err |-> e])]_vars

C17_Witness ==
  \E i, j \in Calls :
    /\ i < j
    /\ hist[i].op = "Empty" /\ hist[i].err = ErrDataWritten
    /\ hist[j].op = "Complete" /\ Succeeded(j)
    /\ closed

\* C18: a closed writer for which no CommandComplete was handed to the sink
\* has written = 0.
C18_ClosedWithoutCompleteHasNoRows == closed /\ CommandCompletes = {} => written = 0

C18_Witness ==
  /\ closed /\ CommandCompletes = {} /\ written = 0
  /\ \E i \in Calls : hist[i].op = "Row"

\* C19: used by two tasks at once the writer can emit two CommandComplete
\* messages: the messages handed to the sink as CommandComplete are never more
\* than the tasks that got past the closed check of Complete, and both tasks
\* can get past it before either closes the writer.
C19_CompletesBoundedByPassedChecks ==
  Cardinality(CommandCompletes) <= Cardinality({t \in Tasks : task[t].passed})

C19_Witness ==
  /\ \A t \in Tasks : task[t].pc = "done" /\ task[t].passed /\ ~task[t].stale /\ task[t].err = nil
  /\ Cardinality(CommandCompletes) = 2
  /\ \A k \in CommandCompletes : \E t \in Tasks : client.ends[k].body = task[t].description \o <<0>>

====
